---- MODULE Spec2Model ----
(***************************************************************************)
(* A model of app.py, the Streamlit script of the AI Study Pack Generator. *)
(*                                                                         *)
(* Every user interaction re-runs the script from the top for that         *)
(* session.  The part of the script before the pipeline (lines 20-62) has  *)
(* no effect outside the session and is one step (Rerun); the pipeline     *)
(* (lines 63-147) is one step per file of the extraction loop and one per  *)
(* blocking call.  The two output files, Generated_Notes.pdf and           *)
(* Concept_Mind_Map.png, live in the working directory of the server       *)
(* process and are shared by all sessions.                                 *)
(*                                                                         *)
(* Text is a sequence of symbols: a symbol is a character where characters *)
(* matter (the mind-map response and the fence pattern) and a whole piece  *)
(* of text elsewhere.                                                      *)
(***************************************************************************)
EXTENDS Naturals, Sequences, FiniteSets

\* ------------------------------------------------------------------ bounds

\* Files per upload.
MaxFiles == 2
\* Pipeline runs per session.
MaxRuns == 2
\* Pieces a mind-map response text is put together from (SpecStrip).
MaxPieces == 5

\* ---------------------------------------------------------------- sessions

Sessions == {"s1", "s2"}
\* The one session that acts under Spec.
Solo == {"s1"}

\* ------------------------------------------------------------------- files

PDF == "application/pdf"
DOCX == "application/vnd.openxmlformats-officedocument.wordprocessingml.document"
PPTX == "application/vnd.openxmlformats-officedocument.presentationml.presentation"

PdfFile ==
    [type |-> PDF, pages |-> <<"page1", "page2">>, paragraphs |-> <<>>,
     slides |-> <<>>, name |-> "scan.pdf"]
DocxFile ==
    [type |-> DOCX, pages |-> <<>>, paragraphs |-> <<"Topic A", "Topic B">>,
     slides |-> <<>>, name |-> "notes.docx"]
PptxFile ==
    [type |-> PPTX, pages |-> <<>>, paragraphs |-> <<>>,
     slides |-> << << [has_text_frame |-> TRUE, text |-> "Title"],
                      [has_text_frame |-> FALSE, text |-> "picture"] >>,
                   << [has_text_frame |-> TRUE, text |-> "Bullet"] >> >>,
     name |-> "deck.pptx"]
PngFile ==
    [type |-> "image/png", pages |-> <<>>, paragraphs |-> <<>>,
     slides |-> <<>>, name |-> "photo.png"]
\* A file whose declared type is none the script tests for and is no image type.
OtherFile ==
    [type |-> "application/octet-stream", pages |-> <<>>, paragraphs |-> <<>>,
     slides |-> <<>>, name |-> "blob.bin"]

FileKinds == {PdfFile, DocxFile, PptxFile, PngFile, OtherFile}

\* The uploads one change of the file uploader makes of an upload: a file more
\* behind the others, or one of its files removed.
UploadEdits(files) ==
    {Append(files, f) : f \in IF Len(files) < MaxFiles THEN FileKinds ELSE {}}
    \cup {SubSeq(files, 1, i - 1) \o SubSeq(files, i + 1, Len(files)) :
             i \in 1..Len(files)}

\* ------------------------------------------------------------ text helpers

RECURSIVE Join(_, _)
\* sep.join(parts)
Join(parts, sep) ==
    IF parts = <<>> THEN <<>>
    ELSE IF Len(parts) = 1 THEN <<parts[1]>>
    ELSE <<parts[1], sep>> \o Join(Tail(parts), sep)

RECURSIVE ShapesText(_)
\* The inner loop over slide.shapes: shape.text + "\n" for each shape with a text frame.
ShapesText(shapes) ==
    IF shapes = <<>> THEN <<>>
    ELSE (IF Head(shapes).has_text_frame THEN <<Head(shapes).text, "\n">> ELSE <<>>)
         \o ShapesText(Tail(shapes))

RECURSIVE SlidesText(_)
\* The outer loop over prs.slides.
SlidesText(slides) ==
    IF slides = <<>> THEN <<>>
    ELSE ShapesText(Head(slides)) \o SlidesText(Tail(slides))

RECURSIVE Rasterize(_)
\* page.get_pixmap(dpi=150) -> PNG bytes -> Image.open, for every page.
Rasterize(pages) ==
    IF pages = <<>> THEN <<>>
    ELSE << <<"pixmap150", Head(pages)>> >> \o Rasterize(Tail(pages))

\* The slip of also taking the text the pages of a PDF embed.
FileText_PdfText(f) ==
    IF f.type = PDF THEN f.pages
    ELSE IF f.type = DOCX THEN Join(f.paragraphs, "\n")
    ELSE IF f.type = PPTX THEN SlidesText(f.slides)
    ELSE <<>>

\* What one file adds to final_extracted_content.
FileText(f) ==
    IF f.type = PDF THEN <<>>
    ELSE IF f.type = DOCX THEN Join(f.paragraphs, "\n")
    ELSE IF f.type = PPTX THEN SlidesText(f.slides)
    ELSE <<>>

\* What one file adds to images_for_processing.
FileImages(f) ==
    IF f.type = PDF THEN Rasterize(f.pages)
    ELSE IF f.type = DOCX THEN <<>>
    ELSE IF f.type = PPTX THEN <<>>
    ELSE << <<"image", f.name>> >>

\* ------------------------------------------------- the generative service

\* vision_response.text
VisionText == <<"transcribed text">>
\* final_response.text
NotesResponses == {<<"# Notes on topic A">>, <<"# Notes on the scan">>}
\* str(e) of an exception of the notes request.
ErrorMessages == {"quota exceeded", "deadline exceeded"}

\* A digraph source, as one symbol.
Graph == "digraph{A->B}"
\* The backtick character (the module's strings cannot hold one).
BT == "BACKTICK"
\* The characters \s matches and str.strip() removes.
Whitespace == {" ", "\n", "\t"}

\* mindmap_response.text: fenced with the dot tag, bare fenced, unfenced, and prose.
MindMapResponses ==
    { <<BT, BT, BT, "d", "o", "t", "\n", Graph, "\n", BT, BT, BT>>,
      <<BT, BT, BT, "\n", Graph, "\n", BT, BT, BT>>,
      <<Graph>>,
      <<"d", "o", "t">> }

\* The f-string of line 104 around final_extracted_content.
NotesPrompt(content) ==
    <<"Please take the following extracted class notes and expand them ...\n\n---\n">>
    \o content \o <<"\n---">>

\* The f-string of line 117 around generated_notes.
MindmapPrompt(notes) ==
    <<"Analyze the following text and generate a structural mind map ...\nText:\n---\n">>
    \o notes

\* The f-string of line 110 around the exception.
NotesError(e) == <<"An error occurred while generating notes: ", e>>

\* ------------------------------------------------------ fence stripping

\* Whether text holds lit at position i.
HasAt(text, i, lit) ==
    /\ i + Len(lit) - 1 <= Len(text)
    /\ \A k \in 1..Len(lit) : text[i + k - 1] = lit[k]

RECURSIVE SkipSpace(_, _)
\* The first position at or after i that holds no whitespace: the greedy \s*.
SkipSpace(text, i) ==
    IF i <= Len(text) /\ text[i] \in Whitespace THEN SkipSpace(text, i + 1) ELSE i

RECURSIVE SubFrom(_, _)
\* re.sub(fence pattern, '', text) from position i on, the pattern being three
\* backticks, dot and \s*, or else three backticks: at each position
\* the first alternative is tried before the second, a match is dropped and the scan
\* goes on behind it, and a character no match starts at is kept.
SubFrom(text, i) ==
    IF i > Len(text) THEN <<>>
    ELSE IF HasAt(text, i, <<BT, BT, BT, "d", "o", "t">>)
         THEN SubFrom(text, SkipSpace(text, i + 6))
    ELSE IF HasAt(text, i, <<BT, BT, BT>>)
         THEN SubFrom(text, i + 3)
    ELSE <<text[i]>> \o SubFrom(text, i + 1)

RECURSIVE LStrip(_)
LStrip(text) ==
    IF text # <<>> /\ Head(text) \in Whitespace THEN LStrip(Tail(text)) ELSE text

RECURSIVE RStrip(_)
RStrip(text) ==
    IF text # <<>> /\ text[Len(text)] \in Whitespace
    THEN RStrip(SubSeq(text, 1, Len(text) - 1)) ELSE text

\* str.strip()
Strip(text) == RStrip(LStrip(text))

\* The slip of trimming the response before the fences are removed.
StripFences_StripFirst(text) == SubFrom(Strip(text), 1)

\* Line 119: re.sub(fence pattern, '', mindmap_response.text).strip()
StripFences(text) == Strip(SubFrom(text, 1))

\* ---------------------------------------------------------------- rendering

\* markdown2.markdown(generated_notes, extras=[...])
Markdown(notes) == <<"<h1>">> \o notes \o <<"</h1>">>

\* The f-string of line 127 around html_text.
HtmlWithStyle(html_text) ==
    <<"<html><head><meta charset=\"utf-8\"><style>...</style></head><body>">>
    \o html_text \o <<"</body></html>">>

\* The bytes pdfkit writes for an HTML text.
PdfBytes(html) == <<"%PDF">> \o html

\* Whether the Graphviz dot program accepts a source.
IsDot(source) == source = <<Graph>>

\* The bytes dot writes for a source with format png.
PngBytes(source) == <<"PNG">> \o source

\* A file of the working directory: its bytes, and the session and run that wrote it.
NoFile == [data |-> <<>>, by |-> <<"nobody", 0>>]

\* -------------------------------------------------------------------- state

VARIABLES
    secret,                   \* st.secrets["GEMINI_API_KEY"], or NoSecret (process-wide)
    fs,                       \* the working directory: Generated_Notes.pdf, Concept_Mind_Map.png
    key_input,                \* per session: the value of the st.text_input widget
    uploaded_files,           \* per session: the value of the st.file_uploader widget
    pressed,                  \* per session: what st.button returned in the latest script run
    pc,                       \* per session: where the script is
    idx,                      \* per session: files the extraction loop has processed
    final_extracted_content,  \* per session: the script's variable of that name
    images_for_processing,    \* per session
    notes_prompt,             \* per session
    generated_notes,          \* per session
    dot_code,                 \* per session
    shown,                    \* per session: the elements on the page
    err,                      \* per session: the text of the st.error of line 110
    exc,                      \* per session: str(e) of the exception caught at line 109
    downloads,                \* per session: the bytes handed to the download buttons and st.image
    trace,                    \* per session: the calls of the current script run, in order
    run,                      \* per session: pipeline runs started
    re_in,                    \* SpecStrip: a response text
    re_out                    \* SpecStrip: the results of stripping it once, twice

vars ==
    <<secret, fs, key_input, uploaded_files, pressed, pc, idx, final_extracted_content,
      images_for_processing, notes_prompt, generated_notes, dot_code, shown, err, exc,
      downloads, trace, run, re_in, re_out>>

\* The per-session variables a script run leaves alone unless it assigns them.
locals ==
    <<idx, final_extracted_content, images_for_processing, notes_prompt, generated_notes,
      dot_code>>

NoSecret == "<KeyError>"

NoDownloads == [pdf |-> NoFile, preview |-> NoFile, png |-> NoFile]

\* Lines 30-38: the key from the secrets, or else from the text input.
ApiKey(s, typed) == IF secret # NoSecret THEN secret ELSE typed

\* Lines 41, 61, 62 with the button pressed and no upload (the mutant of StartsPipeline).
StartsPipeline_NoUploadGate(key, button, files) == key # "" /\ button

\* Lines 41, 61, 62: the three gates around the pipeline.
StartsPipeline(key, button, files) == key # "" /\ button /\ files # <<>>

\* The extraction loop's next position: the next file, or the vision step behind the loop.
AfterFile(n, files) == IF n < Len(files) THEN "extract" ELSE "vision"

\* The script proceeds only at an st call: a rerun request is served there.
Interruptible(s) == pc[s] \notin {"mindmap", "png"}

\* Lines 20-68 and 148-152: a script run from the top up to the pipeline, with the
\* widget values typed, files and button.  The page is rebuilt from nothing.
Rerun(s, typed, files, button) ==
    LET key == ApiKey(s, typed)
        starts == StartsPipeline(key, button, files)
    IN  /\ key_input' = [key_input EXCEPT ![s] = typed]
        /\ uploaded_files' = [uploaded_files EXCEPT ![s] = files]
        /\ pressed' = [pressed EXCEPT ![s] = button]
        /\ pc' = [pc EXCEPT ![s] = IF starts THEN AfterFile(0, files) ELSE "idle"]
        /\ run' = [run EXCEPT ![s] = IF starts THEN @ + 1 ELSE @]
        /\ shown' = [shown EXCEPT ![s] =
                (IF secret # NoSecret THEN {"key_loaded"} ELSE {"key_missing"})
                \cup (IF key = "" THEN {"info"}
                      ELSE IF button /\ ~starts THEN {"warning"} ELSE {})]
        /\ idx' = [idx EXCEPT ![s] = 0]
        /\ final_extracted_content' = [final_extracted_content EXCEPT ![s] = <<>>]
        /\ images_for_processing' = [images_for_processing EXCEPT ![s] = <<>>]
        /\ notes_prompt' = [notes_prompt EXCEPT ![s] = <<>>]
        /\ generated_notes' = [generated_notes EXCEPT ![s] = <<>>]
        /\ dot_code' = [dot_code EXCEPT ![s] = <<>>]
        /\ err' = [err EXCEPT ![s] = <<>>]
        /\ exc' = [exc EXCEPT ![s] = ""]
        /\ downloads' = [downloads EXCEPT ![s] = NoDownloads]
        /\ trace' = [trace EXCEPT ![s] = <<>>]
        /\ UNCHANGED <<secret, fs, re_in, re_out>>

\* What Init has in common under every specification.
InitCommon ==
    /\ fs = [pdf |-> NoFile, png |-> NoFile]
    /\ pressed = [s \in Sessions |-> FALSE]
    /\ pc = [s \in Sessions |-> "idle"]
    /\ idx = [s \in Sessions |-> 0]
    /\ final_extracted_content = [s \in Sessions |-> <<>>]
    /\ images_for_processing = [s \in Sessions |-> <<>>]
    /\ notes_prompt = [s \in Sessions |-> <<>>]
    /\ generated_notes = [s \in Sessions |-> <<>>]
    /\ dot_code = [s \in Sessions |-> <<>>]
    /\ err = [s \in Sessions |-> <<>>]
    /\ exc = [s \in Sessions |-> ""]
    /\ downloads = [s \in Sessions |-> NoDownloads]
    /\ trace = [s \in Sessions |-> <<>>]
    /\ run = [s \in Sessions |-> 0]

\* The first script run of every session: no key typed, nothing uploaded.
Init ==
    /\ InitCommon
    /\ secret \in {NoSecret, "key"}
    /\ key_input = [s \in Sessions |-> ""]
    /\ uploaded_files = [s \in Sessions |-> <<>>]
    /\ shown = [s \in Sessions |->
                  IF secret # NoSecret THEN {"key_loaded"} ELSE {"key_missing", "info"}]
    /\ re_in = <<>>
    /\ re_out = <<>>

\* ------------------------------------------------------------- interactions

\* The user types a key into the text input of line 38.
EnterKey(s, k) ==
    /\ "key_missing" \in shown[s]
    /\ Interruptible(s)
    /\ k # key_input[s]
    /\ Rerun(s, k, uploaded_files[s], FALSE)

\* The user changes the upload of line 54.
Upload(s, files) ==
    /\ ApiKey(s, key_input[s]) # ""
    /\ Interruptible(s)
    /\ files # uploaded_files[s]
    /\ Rerun(s, key_input[s], files, FALSE)

\* The user presses the button of line 61.
ClickGenerate(s) ==
    /\ ApiKey(s, key_input[s]) # ""
    /\ Interruptible(s)
    /\ StartsPipeline(ApiKey(s, key_input[s]), TRUE, uploaded_files[s]) => run[s] < MaxRuns
    /\ Rerun(s, key_input[s], uploaded_files[s], TRUE)

\* The user presses a download button of line 142 or 147.
ClickDownload(s) ==
    /\ shown[s] \cap {"download_pdf", "download_png"} # {}
    /\ Interruptible(s)
    /\ Rerun(s, key_input[s], uploaded_files[s], FALSE)

\* ------------------------------------------------------------- the pipeline

widgets == <<secret, key_input, uploaded_files, pressed, run>>
strip_vars == <<re_in, re_out>>

\* An exception nothing catches: Streamlit shows it and the script run ends.
Uncaught(s) ==
    /\ pc' = [pc EXCEPT ![s] = "idle"]
    /\ shown' = [shown EXCEPT ![s] = @ \cup {"exception"}]

\* Lines 69-88: one pass of the extraction loop.
ExtractFile(s) ==
    /\ pc[s] = "extract"
    /\ LET f == uploaded_files[s][idx[s] + 1]
       IN  /\ final_extracted_content' =
                 [final_extracted_content EXCEPT ![s] = @ \o FileText(f)]
           /\ images_for_processing' =
                 [images_for_processing EXCEPT ![s] = @ \o FileImages(f)]
    /\ idx' = [idx EXCEPT ![s] = @ + 1]
    /\ pc' = [pc EXCEPT ![s] = AfterFile(idx[s] + 1, uploaded_files[s])]
    /\ trace' = [trace EXCEPT ![s] = Append(@, "extract")]
    /\ UNCHANGED <<widgets, strip_vars, fs, notes_prompt, generated_notes, dot_code,
                   shown, err, exc, downloads>>

\* Lines 73, 79, 82, 88: the file cannot be opened as what its branch takes it for.
ExtractFail(s) ==
    /\ pc[s] = "extract"
    /\ Uncaught(s)
    /\ trace' = [trace EXCEPT ![s] = Append(@, "extract")]
    /\ UNCHANGED <<widgets, strip_vars, fs, locals, err, exc, downloads>>

\* Line 90 with no image: the vision request is skipped.
VisionSkip(s) ==
    /\ pc[s] = "vision"
    /\ images_for_processing[s] = <<>>
    /\ pc' = [pc EXCEPT ![s] = "notes"]
    /\ UNCHANGED <<widgets, strip_vars, fs, locals, shown, err, exc, downloads, trace>>

\* The slip of adding the transcription to the extracted text.
VisionCall_Append(s) ==
    /\ pc[s] = "vision"
    /\ images_for_processing[s] # <<>>
    /\ final_extracted_content' = [final_extracted_content EXCEPT ![s] = @ \o VisionText]
    /\ pc' = [pc EXCEPT ![s] = "notes"]
    /\ trace' = [trace EXCEPT ![s] = @ \o <<"vision", "vision_ok">>]
    /\ UNCHANGED <<widgets, strip_vars, fs, idx, images_for_processing, notes_prompt,
                   generated_notes, dot_code, shown, err, exc, downloads>>

\* Lines 90-95: one request with the text and all images; its answer is the text.
VisionCall(s) ==
    /\ pc[s] = "vision"
    /\ images_for_processing[s] # <<>>
    /\ final_extracted_content' = [final_extracted_content EXCEPT ![s] = VisionText]
    /\ pc' = [pc EXCEPT ![s] = "notes"]
    /\ trace' = [trace EXCEPT ![s] = @ \o <<"vision", "vision_ok">>]
    /\ UNCHANGED <<widgets, strip_vars, fs, idx, images_for_processing, notes_prompt,
                   generated_notes, dot_code, shown, err, exc, downloads>>

\* Line 94 raises: nothing catches it.
VisionFail(s) ==
    /\ pc[s] = "vision"
    /\ images_for_processing[s] # <<>>
    /\ Uncaught(s)
    /\ trace' = [trace EXCEPT ![s] = Append(@, "vision")]
    /\ UNCHANGED <<widgets, strip_vars, fs, locals, err, exc, downloads>>

\* Lines 102-108: the notes request answers with text n.
NotesOk(s, n) ==
    /\ pc[s] = "notes"
    /\ notes_prompt' = [notes_prompt EXCEPT ![s] = NotesPrompt(final_extracted_content[s])]
    /\ generated_notes' = [generated_notes EXCEPT ![s] = n]
    /\ pc' = [pc EXCEPT ![s] = "sleep"]
    /\ trace' = [trace EXCEPT ![s] = @ \o <<"notes", "notes_ok">>]
    /\ UNCHANGED <<widgets, strip_vars, fs, idx, final_extracted_content,
                   images_for_processing, dot_code, shown, err, exc, downloads>>

\* The slip of an except clause that shows the error and goes on.
NotesFail_NoStop(s, m) ==
    /\ pc[s] = "notes"
    /\ notes_prompt' = [notes_prompt EXCEPT ![s] = NotesPrompt(final_extracted_content[s])]
    /\ exc' = [exc EXCEPT ![s] = m]
    /\ err' = [err EXCEPT ![s] = NotesError(m)]
    /\ shown' = [shown EXCEPT ![s] = @ \cup {"error"}]
    /\ pc' = [pc EXCEPT ![s] = "sleep"]
    /\ trace' = [trace EXCEPT ![s] = Append(@, "notes")]
    /\ UNCHANGED <<widgets, strip_vars, fs, idx, final_extracted_content,
                   images_for_processing, generated_notes, dot_code, downloads>>

\* The slip of an except clause that sends the request again.
NotesFail_Retry(s, m) ==
    /\ pc[s] = "notes"
    /\ notes_prompt' = [notes_prompt EXCEPT ![s] = NotesPrompt(final_extracted_content[s])]
    /\ exc' = [exc EXCEPT ![s] = m]
    /\ trace' = [trace EXCEPT ![s] = Append(@, "notes")]
    /\ UNCHANGED <<widgets, strip_vars, fs, idx, final_extracted_content,
                   images_for_processing, generated_notes, dot_code, shown, err,
                   downloads, pc>>

\* Lines 102-111: the notes request raises with message m; st.error, st.stop.
NotesFail(s, m) ==
    /\ pc[s] = "notes"
    /\ notes_prompt' = [notes_prompt EXCEPT ![s] = NotesPrompt(final_extracted_content[s])]
    /\ exc' = [exc EXCEPT ![s] = m]
    /\ err' = [err EXCEPT ![s] = NotesError(m)]
    /\ shown' = [shown EXCEPT ![s] = @ \cup {"error"}]
    /\ pc' = [pc EXCEPT ![s] = "idle"]
    /\ trace' = [trace EXCEPT ![s] = Append(@, "notes")]
    /\ UNCHANGED <<widgets, strip_vars, fs, idx, final_extracted_content,
                   images_for_processing, generated_notes, dot_code, downloads>>

\* Line 116: time.sleep(20).
Sleep(s) ==
    /\ pc[s] = "sleep"
    /\ pc' = [pc EXCEPT ![s] = "mindmap"]
    /\ trace' = [trace EXCEPT ![s] = Append(@, "sleep")]
    /\ UNCHANGED <<widgets, strip_vars, fs, locals, shown, err, exc, downloads>>

\* Lines 117-119: the mind-map request answers with text r.
MindMapOk(s, r) ==
    /\ pc[s] = "mindmap"
    /\ dot_code' = [dot_code EXCEPT ![s] = StripFences(r)]
    /\ pc' = [pc EXCEPT ![s] = "pdf"]
    /\ trace' = [trace EXCEPT ![s] = @ \o <<"mindmap", "mindmap_ok">>]
    /\ UNCHANGED <<widgets, strip_vars, fs, idx, final_extracted_content,
                   images_for_processing, notes_prompt, generated_notes, shown, err, exc,
                   downloads>>

\* Line 118 raises: nothing catches it.
MindMapFail(s) ==
    /\ pc[s] = "mindmap"
    /\ Uncaught(s)
    /\ trace' = [trace EXCEPT ![s] = Append(@, "mindmap")]
    /\ UNCHANGED <<widgets, strip_vars, fs, locals, err, exc, downloads>>

\* Lines 126-128: the notes become Generated_Notes.pdf.
PdfOk(s) ==
    /\ pc[s] = "pdf"
    /\ fs' = [fs EXCEPT !.pdf =
                [data |-> PdfBytes(HtmlWithStyle(Markdown(generated_notes[s]))),
                 by |-> <<s, run[s]>>]]
    /\ pc' = [pc EXCEPT ![s] = "png"]
    /\ trace' = [trace EXCEPT ![s] = @ \o <<"pdf", "pdf_ok">>]
    /\ UNCHANGED <<widgets, strip_vars, locals, shown, err, exc, downloads>>

\* Line 128 raises, with the file written first (wkhtmltopdf ending with an error
\* code after it wrote its output) or not.
PdfFail(s, written) ==
    /\ pc[s] = "pdf"
    /\ fs' = IF written
             THEN [fs EXCEPT !.pdf =
                     [data |-> PdfBytes(HtmlWithStyle(Markdown(generated_notes[s]))),
                      by |-> <<s, run[s]>>]]
             ELSE fs
    /\ Uncaught(s)
    /\ trace' = [trace EXCEPT ![s] = Append(@, "pdf")]
    /\ UNCHANGED <<widgets, strip_vars, locals, err, exc, downloads>>

\* Lines 130-131: the diagram source becomes Concept_Mind_Map.png.
PngOk(s) ==
    /\ pc[s] = "png"
    /\ IsDot(dot_code[s])
    /\ fs' = [fs EXCEPT !.png = [data |-> PngBytes(dot_code[s]), by |-> <<s, run[s]>>]]
    /\ pc' = [pc EXCEPT ![s] = "show_pdf"]
    /\ trace' = [trace EXCEPT ![s] = @ \o <<"png", "png_ok">>]
    /\ UNCHANGED <<widgets, strip_vars, locals, shown, err, exc, downloads>>

\* The slip of a render whose failure is swallowed.
PngFail_Swallowed(s) ==
    /\ pc[s] = "png"
    /\ pc' = [pc EXCEPT ![s] = "show_pdf"]
    /\ trace' = [trace EXCEPT ![s] = Append(@, "png")]
    /\ UNCHANGED <<widgets, strip_vars, fs, locals, shown, err, exc, downloads>>

\* Line 131 raises (the source is no graph, or dot fails): nothing catches it.
PngFail(s) ==
    /\ pc[s] = "png"
    /\ Uncaught(s)
    /\ trace' = [trace EXCEPT ![s] = Append(@, "png")]
    /\ UNCHANGED <<widgets, strip_vars, fs, locals, err, exc, downloads>>

\* Lines 137-142: the header and the PDF download, read from Generated_Notes.pdf.
ShowPdf(s) ==
    /\ pc[s] = "show_pdf"
    /\ shown' = [shown EXCEPT ![s] = @ \cup {"header", "download_pdf"}]
    /\ downloads' = [downloads EXCEPT ![s].pdf = fs.pdf]
    /\ pc' = [pc EXCEPT ![s] = "show_preview"]
    /\ UNCHANGED <<widgets, strip_vars, fs, locals, err, exc, trace>>

\* Lines 144-145: st.image reads Concept_Mind_Map.png.
ShowPreview(s) ==
    /\ pc[s] = "show_preview"
    /\ shown' = [shown EXCEPT ![s] = @ \cup {"preview"}]
    /\ downloads' = [downloads EXCEPT ![s].preview = fs.png]
    /\ pc' = [pc EXCEPT ![s] = "show_png"]
    /\ UNCHANGED <<widgets, strip_vars, fs, locals, err, exc, trace>>

\* Lines 146-147: the PNG download, read from Concept_Mind_Map.png; the script ends.
ShowPng(s) ==
    /\ pc[s] = "show_png"
    /\ shown' = [shown EXCEPT ![s] = @ \cup {"download_png"}]
    /\ downloads' = [downloads EXCEPT ![s].png = fs.png]
    /\ pc' = [pc EXCEPT ![s] = "idle"]
    /\ UNCHANGED <<widgets, strip_vars, fs, locals, err, exc, trace>>

\* A step of the pipeline of session s.
Pipeline(s) ==
    \/ ExtractFile(s)
    \/ ExtractFail(s)
    \/ VisionSkip(s)
    \/ VisionCall(s)
    \/ VisionFail(s)
    \/ \E n \in NotesResponses : NotesOk(s, n)
    \/ \E m \in ErrorMessages : NotesFail(s, m)
    \/ Sleep(s)
    \/ \E r \in MindMapResponses : MindMapOk(s, r)
    \/ MindMapFail(s)
    \/ PdfOk(s)
    \/ \E written \in BOOLEAN : PdfFail(s, written)
    \/ PngOk(s)
    \/ PngFail(s)
    \/ ShowPdf(s)
    \/ ShowPreview(s)
    \/ ShowPng(s)

\* ----------------------------------------------------------- specifications

\* One session, every input.
Next ==
    \E s \in Solo :
        \/ \E k \in {"", "key"} : EnterKey(s, k)
        \/ \E files \in UploadEdits(uploaded_files[s]) : Upload(s, files)
        \/ ClickGenerate(s)
        \/ ClickDownload(s)
        \/ Pipeline(s)

Spec == Init /\ [][Next]_vars

\* Two sessions of one server process, the key in the secrets and an upload in place.
InitTwo ==
    /\ InitCommon
    /\ secret = "key"
    /\ key_input = [s \in Sessions |-> ""]
    /\ uploaded_files = [s \in Sessions |-> IF s = "s1" THEN <<PdfFile>> ELSE <<DocxFile>>]
    /\ shown = [s \in Sessions |-> {"key_loaded"}]
    /\ re_in = <<>>
    /\ re_out = <<>>

NextTwo ==
    \E s \in Sessions :
        \/ ClickGenerate(s)
        \/ ClickDownload(s)
        \/ Pipeline(s)

SpecTwo == InitTwo /\ [][NextTwo]_vars

\* The texts a mind-map response is put together from.
Pieces ==
    { <<BT>>, <<"d">>, <<"o">>, <<"t">>, <<"\n">>, <<BT, BT, BT>>,
      <<BT, BT, BT, "d", "o", "t">> }

RECURSIVE Flatten(_)
Flatten(seqs) == IF seqs = <<>> THEN <<>> ELSE Head(seqs) \o Flatten(Tail(seqs))

Texts == {Flatten(p) : p \in UNION {[1..n -> Pieces] : n \in 0..MaxPieces}}

\* Line 119 applied to a response text.
StripOnce ==
    /\ re_out = <<>>
    /\ re_out' = <<StripFences(re_in)>>
    /\ UNCHANGED <<widgets, fs, pc, locals, shown, err, exc, downloads, trace, re_in>>

\* Line 119 applied to its own result.
StripAgain ==
    /\ Len(re_out) = 1
    /\ re_out' = Append(re_out, StripFences(re_out[1]))
    /\ UNCHANGED <<widgets, fs, pc, locals, shown, err, exc, downloads, trace, re_in>>

InitStrip ==
    /\ InitCommon
    /\ secret = "key"
    /\ key_input = [s \in Sessions |-> ""]
    /\ uploaded_files = [s \in Sessions |-> <<>>]
    /\ shown = [s \in Sessions |-> {"key_loaded"}]
    /\ re_in \in Texts
    /\ re_out = <<>>

NextStrip == StripOnce \/ StripAgain

SpecStrip == InitStrip /\ [][NextStrip]_vars

\* ------------------------------------------------------------------ claims

InTrace(s, e) == \E i \in DOMAIN trace[s] : trace[s][i] = e

\* The "Your Study Pack is Ready" section with both download controls.
Ready(s) == {"header", "download_pdf", "download_png"} \subseteq shown[s]

\* Whether the current run of session s wrote a file.
WroteFile(s) == fs.pdf.by = <<s, run[s]>> \/ fs.png.by = <<s, run[s]>>

\* C1: a run is ready if and only if both its conversions, to PDF and to PNG,
\* completed without error: ready only after both, both completed and the script
\* over means ready, and a run that failed at any step is not ready.
C1_ReadyIffBothConverted ==
    \A s \in Sessions :
        /\ Ready(s) => InTrace(s, "pdf_ok") /\ InTrace(s, "png_ok")
        /\ (pc[s] = "idle" /\ InTrace(s, "pdf_ok") /\ InTrace(s, "png_ok")) => Ready(s)
        /\ shown[s] \cap {"exception", "error"} # {} =>
               /\ ~Ready(s)
               /\ shown[s] \cap {"header", "download_pdf", "download_png", "preview"} = {}

\* A run ended ready.
C1_Witness ==
    \E s \in Sessions : Ready(s) /\ pc[s] = "idle" /\ InTrace(s, "png_ok")

\* C2: when the notes request fails with message m, the error shown contains m, no
\* later step runs (no pause, no mind-map request, no rendering, no download display)
\* and the run writes neither output file.
C2_NotesFailureStops ==
    \A s \in Sessions :
        exc[s] # "" =>
            /\ "error" \in shown[s]
            /\ \E i \in DOMAIN err[s] : err[s][i] = exc[s]
            /\ pc[s] = "idle"
            /\ \A e \in {"sleep", "mindmap", "pdf", "png"} : ~InTrace(s, e)
            /\ shown[s] \cap {"header", "download_pdf", "download_png", "preview"} = {}
            /\ ~WroteFile(s)

\* The notes request of a second run failed with "quota exceeded", the files of the
\* first run being in place.
C2_Witness ==
    \E s \in Sessions :
        /\ exc[s] = "quota exceeded"
        /\ run[s] = 2
        /\ fs.pdf.by = <<s, 1>>
        /\ fs.png.by = <<s, 1>>

\* C3: no step of the pipeline (extraction, service request, rendering) happens
\* unless the key is non-empty, the button was pressed and the upload is non-empty;
\* the button pressed with an empty upload gives the warning and no step.
C3_Gates ==
    \A s \in Sessions :
        /\ (trace[s] # <<>> \/ pc[s] # "idle") =>
               /\ ApiKey(s, key_input[s]) # ""
               /\ pressed[s]
               /\ uploaded_files[s] # <<>>
        /\ (pressed[s] /\ ApiKey(s, key_input[s]) # "" /\ uploaded_files[s] = <<>>) =>
               /\ "warning" \in shown[s]
               /\ trace[s] = <<>>
               /\ pc[s] = "idle"

\* The button was pressed with an empty upload, after a run that went through.
C3_Witness ==
    \E s \in Sessions :
        /\ pressed[s]
        /\ uploaded_files[s] = <<>>
        /\ "warning" \in shown[s]
        /\ fs.png.by = <<s, 1>>

IsPrefix(a, b) == Len(a) <= Len(b) /\ SubSeq(b, 1, Len(a)) = a

\* C4: a pass of the extraction loop adds a Word or PowerPoint file to the
\* extracted text and leaves the pending images alone, and adds a file of any other
\* type (PDF, image, unrecognized) to the pending images and leaves the text alone.
C4_Partition ==
    [][\A s \in Sessions :
          (pc[s] = "extract" /\ idx'[s] = idx[s] + 1) =>
              LET f == uploaded_files[s][idx[s] + 1]
              IN  IF f.type \in {DOCX, PPTX}
                  THEN /\ images_for_processing'[s] = images_for_processing[s]
                       /\ IsPrefix(final_extracted_content[s], final_extracted_content'[s])
                       /\ final_extracted_content'[s] # final_extracted_content[s]
                  ELSE /\ final_extracted_content'[s] = final_extracted_content[s]
                       /\ IsPrefix(images_for_processing[s], images_for_processing'[s])
                       /\ images_for_processing'[s] # images_for_processing[s]
      ]_vars

\* Two files of different kinds went through the loop and both accumulators hold
\* something.
C4_Witness ==
    \E s \in Sessions :
        /\ pc[s] = "vision"
        /\ idx[s] = 2
        /\ final_extracted_content[s] # <<>>
        /\ images_for_processing[s] # <<>>

\* The text of a Word file: its paragraphs with a newline between two of them.
C5_WordText(paragraphs) ==
    IF paragraphs = <<>> THEN <<>>
    ELSE [i \in 1..(2 * Len(paragraphs) - 1) |->
            IF i % 2 = 1 THEN paragraphs[(i + 1) \div 2] ELSE "\n"]

RECURSIVE C5_DeckText(_)
\* The text of a presentation: every shape text, in slide then shape order, each
\* with a newline behind it.
C5_DeckText(slides) ==
    IF slides = <<>> THEN <<>>
    ELSE LET last == slides[Len(slides)]
             texts == SelectSeq(last, LAMBDA sh : sh.has_text_frame)
         IN  C5_DeckText(SubSeq(slides, 1, Len(slides) - 1))
             \o [i \in 1..(2 * Len(texts)) |->
                   IF i % 2 = 1 THEN texts[(i + 1) \div 2].text ELSE "\n"]

RECURSIVE C5_UploadText(_)
\* The text of an upload, file after file.
C5_UploadText(files) ==
    IF files = <<>> THEN <<>>
    ELSE LET last == files[Len(files)]
         IN  C5_UploadText(SubSeq(files, 1, Len(files) - 1))
             \o (IF last.type = DOCX THEN C5_WordText(last.paragraphs)
                 ELSE IF last.type = PPTX THEN C5_DeckText(last.slides)
                 ELSE <<>>)

\* C5: the notes prompt embeds, with no pending image, exactly the extracted text
\* in upload order, the vision request not being made; and with a pending image
\* exactly the vision answer, which replaces the extracted text.
C5_PromptText ==
    \A s \in Sessions :
        InTrace(s, "notes") =>
            /\ Len(notes_prompt[s]) >= 2
            /\ LET inner == SubSeq(notes_prompt[s], 2, Len(notes_prompt[s]) - 1)
                   anyImage == \E i \in DOMAIN uploaded_files[s] :
                                  uploaded_files[s][i].type \notin {DOCX, PPTX}
               IN  /\ ~anyImage =>
                          /\ ~InTrace(s, "vision")
                          /\ inner = C5_UploadText(uploaded_files[s])
                   /\ anyImage =>
                          /\ InTrace(s, "vision_ok")
                          /\ inner = VisionText
                   /\ uploaded_files[s] = <<DocxFile>> =>
                          inner = <<"Topic A", "\n", "Topic B">>

\* A Word file and an image were uploaded and the notes request was made: the
\* text of the Word file is replaced.
C5_Witness ==
    \E s \in Sessions :
        /\ InTrace(s, "notes")
        /\ uploaded_files[s] = <<DocxFile, PngFile>>

\* C6: once a run is ready, a script run without the button pressed keeps the
\* download controls and starts no pipeline step.
C6_DownloadsPersist ==
    [][\A s \in Sessions :
          (Ready(s) /\ pc[s] = "idle" /\ ~pressed'[s]) =>
              /\ Ready(s)'
              /\ pc'[s] = "idle"
              /\ trace'[s] = <<>> \/ trace'[s] = trace[s]
      ]_vars

\* C7: the stored PDF and PNG, once both exist and no run is between its two
\* conversions, are of the same run; and a run whose PNG rendering fails after its
\* PDF conversion stores nothing.
C7_StoredPairAtomic ==
    /\ (fs.pdf # NoFile /\ fs.png # NoFile /\ \A s \in Sessions : pc[s] # "png") =>
           fs.pdf.by = fs.png.by
    /\ \A s \in Sessions :
           (InTrace(s, "pdf_ok") /\ InTrace(s, "png") /\ ~InTrace(s, "png_ok")) =>
               ~WroteFile(s)

\* C8: what a session offers for download and previews was rendered from its own
\* notes and diagram source in its current run.
C8_NoSharing ==
    \A s \in Sessions :
        /\ "download_pdf" \in shown[s] =>
               downloads[s].pdf =
                   [data |-> PdfBytes(HtmlWithStyle(Markdown(generated_notes[s]))),
                    by |-> <<s, run[s]>>]
        /\ "preview" \in shown[s] =>
               downloads[s].preview =
                   [data |-> PngBytes(dot_code[s]), by |-> <<s, run[s]>>]
        /\ "download_png" \in shown[s] =>
               downloads[s].png =
                   [data |-> PngBytes(dot_code[s]), by |-> <<s, run[s]>>]

\* The place of a call in the order of the pipeline.
C9_Rank(e) ==
    CASE e = "extract" -> 1
      [] e = "vision" -> 2
      [] e = "vision_ok" -> 3
      [] e = "notes" -> 4
      [] e = "notes_ok" -> 5
      [] e = "sleep" -> 6
      [] e = "mindmap" -> 7
      [] e = "mindmap_ok" -> 8
      [] e = "pdf" -> 9
      [] e = "pdf_ok" -> 10
      [] e = "png" -> 11
      [] e = "png_ok" -> 12

\* C9: the calls of a run come in the order extraction, vision, notes, pause, mind
\* map, rendering; each request is made at most once; the mind-map request is made
\* only behind an answered notes request and the pause, and rendering only behind
\* an answered mind-map request.
C9_Order ==
    \A s \in Sessions :
        /\ \A i, j \in DOMAIN trace[s] :
               i < j =>
                   \/ C9_Rank(trace[s][i]) < C9_Rank(trace[s][j])
                   \/ trace[s][i] = "extract" /\ trace[s][j] = "extract"
        /\ InTrace(s, "sleep") => InTrace(s, "notes_ok")
        /\ InTrace(s, "mindmap") => InTrace(s, "notes_ok") /\ InTrace(s, "sleep")
        /\ InTrace(s, "pdf") => InTrace(s, "mindmap_ok")
        /\ InTrace(s, "png") => InTrace(s, "pdf_ok")

\* A run went through every step, the vision request included.
C9_Witness ==
    \E s \in Sessions : InTrace(s, "vision_ok") /\ InTrace(s, "png_ok")

\* C10: stripping the fences of a text twice gives what stripping them once gives.
C10_StripIdempotent ==
    Len(re_out) = 2 => re_out[2] = re_out[1]

\* A text fenced with the dot tag was stripped twice.
C10_Witness ==
    /\ re_in = <<BT, BT, BT, "d", "o", "t", "\n", "d", "\n", BT, BT, BT>>
    /\ Len(re_out) = 2
    /\ re_out[1] = <<"d">>

====
